---------------------------- MODULE Spec2Model ----------------------------
(***************************************************************************)
(* A model of src/FibonacciHeap.py: the Element nodes, addressed by their  *)
(* creation number, the two fields of every FibonacciHeap (_min, _size)    *)
(* and the public operations with every helper they call.  Each method is  *)
(* a pure operator from a heap-memory record to a heap-memory record, and  *)
(* each action is one call of a public method by a client.  The binary     *)
(* MinHeap of src/MinHeapTimed.py is modelled the same way, on its own two *)
(* fields (_heap, _dict).                                                  *)
(***************************************************************************)
EXTENDS Integers, Sequences, FiniteSets

\* Elements the client may construct in a run on one heap or on two heaps.
MaxNodes == 4

\* Finite priorities of a run on one heap are drawn from 1..MaxPri.
MaxPri == 3

\* Finite priorities of a run on two heaps are drawn from 1..MergePri.
MergePri == 2

\* Elements the client may construct in a deep run, which trades priorities
\* for trees of more than one level.
DeepNodes == 5

\* Finite priorities of a deep run are drawn from 1..DeepPri.
DeepPri == 1

\* Elements the client may construct in a sorting run (insert and
\* extract_min only, the priorities in the heap pairwise different), and the
\* priorities 1..SortPri it draws from.
SortNodes == 5

SortPri == 5

\* Elements the client may construct in a run on the binary MinHeap, and the
\* priorities 1..HeapPri it draws from.
HeapNodes == 5

HeapPri == 3

\* Elements the client constructs in a batch run (all inserted first, with one
\* priority; then extract_min and decrease_key): enough for a child with two
\* children of its own, on which a cascade can cut a marked Element.
CascadeNodes == 9

\* The priority a batch run inserts with; decrease_key lowers it to -inf.
CascadePri == 1

\* Elements whose priority the client of a batch run lowers, at most.
CascadeCuts == 3

\* Elements the client constructs in a run that builds a tree in heap 2 and
\* merges it into heap 1, and the Elements whose priority it lowers, at most.
GraftNodes == 6

GraftCuts == 2

\* -np.inf (delete's sentinel): below every finite priority, equal to itself.
NegInf == 0

\* The null reference.
None == 0

Max(a, b) == IF a > b THEN a ELSE b

\* Every Element a run may construct, by creation number.
Nodes == 1..Max(Max(Max(MaxNodes, HeapNodes), Max(DeepNodes, SortNodes)),
               Max(CascadeNodes, GraftNodes))

Heaps == {1, 2}

\* The heap that union constructs and returns.
UnionHeap == 3

\* The binary MinHeap, as a holder of Elements.
MinHeap == 4

\* -inf and the finite priorities up to maxp.
PrioritiesTo(maxp) == {NegInf} \cup (1..maxp)

VARIABLES
    priority,   \* Element.priority
    left,       \* Element.left
    right,      \* Element.right
    parent,     \* Element.parent
    child,      \* Element.child
    degree,     \* Element.degree
    mark,       \* Element.mark
    _min,       \* FibonacciHeap._min, per heap
    _size,      \* FibonacciHeap._size, per heap
    _heap,      \* MinHeap._heap: the Elements in array order
    _dict,      \* MinHeap._dict: obj -> position in _heap, counted from 0
    alloc,      \* how many Elements have been constructed
    owner,      \* per Element: the heap that holds it, None once it was returned by extract_min
    lost,       \* per Element: it is a child and _cut took a child from it since _heap_link made it one
    call,       \* the name of the last public call
    err,        \* the exception the last call raised, "none" if it returned
    ret         \* the Element the last call returned (None: returned None or nothing)

vars == <<priority, left, right, parent, child, degree, mark, _min, _size,
          _heap, _dict, alloc, owner, lost, call, err, ret>>

\* The heap memory as one value: what the methods read and write.
Mem == [priority |-> priority, left |-> left, right |-> right, parent |-> parent,
        child |-> child, degree |-> degree, mark |-> mark,
        _min |-> _min, _size |-> _size, err |-> "none", ret |-> None]

\* Raising: the first exception wins, whatever runs after it is skipped.
Raise(s, e) == IF s.err = "none" THEN [s EXCEPT !.err = e] ELSE s

Ok(s) == s.err = "none"

-----------------------------------------------------------------------------
(* Element.__init__ *)
Element(s, e, p) ==
    [s EXCEPT !.priority[e] = p, !.left[e] = e, !.right[e] = e,
              !.child[e] = None, !.parent[e] = None,
              !.degree[e] = 0, !.mark[e] = FALSE]

(* FibonacciHeap._doublylinkedlist_insert: the tuple assignment            *)
(*   tail.left, head.right, y.left, y.right = y, y, head, tail             *)
(* assigns its targets from left to right.                                 *)
_doublylinkedlist_insert(s, head, y) ==
    IF head # None
    THEN LET tail == s.right[head]
         IN  [s EXCEPT !.left  = [@ EXCEPT ![tail] = y, ![y] = head],
                       !.right = [@ EXCEPT ![head] = y, ![y] = tail]]
    ELSE s

(* FibonacciHeap._insert_to_root_list *)
_insert_to_root_list(s, h, elem) ==
    LET s1 == IF s.parent[elem] # None THEN [s EXCEPT !.parent[elem] = None] ELSE s
    IN  IF s1._min[h] # None
        THEN _doublylinkedlist_insert(s1, s1._min[h], elem)
        ELSE [s1 EXCEPT !._min[h] = elem]

\* insert that leaves _min alone unless the heap was empty.
insert_KeepMin(s, h, e, p) ==
    LET s1 == Element(s, e, p)
        s2 == _insert_to_root_list(s1, h, e)
    IN  [s2 EXCEPT !._size[h] = @ + 1, !.ret = e]

(* FibonacciHeap.insert, on the Element e it constructs *)
insert(s, h, e, p) ==
    LET s1 == Element(s, e, p)
        s2 == _insert_to_root_list(s1, h, e)
        s3 == IF s2._min[h] = None
              THEN [s2 EXCEPT !._min[h] = e]
              ELSE IF s2.priority[s2._min[h]] > s2.priority[e]
                   THEN [s2 EXCEPT !._min[h] = e]
                   ELSE s2
    IN  [s3 EXCEPT !._size[h] = @ + 1, !.ret = e]

-----------------------------------------------------------------------------
(* FibonacciHeap._remove_from_root_list *)
_remove_from_root_list(s, h, z) ==
    IF s.parent[z] # None
    THEN Raise(s, "AssertionError")
    ELSE IF s.right[z] = z
         THEN [s EXCEPT !._min[h] = None]
         ELSE LET s1 == IF z = s._min[h] THEN [s EXCEPT !._min[h] = s.right[z]] ELSE s
                  s2 == [s1 EXCEPT !.right[s1.left[z]] = s1.right[z]]
                  s3 == [s2 EXCEPT !.left[s2.right[z]] = s2.left[z]]
              IN  [s3 EXCEPT !.left[z] = z, !.right[z] = z]

(* FibonacciHeap._heap_link: y becomes a child of x *)
_heap_link(s, y, x) ==
    LET s1 == IF s.child[x] # None
              THEN _doublylinkedlist_insert(s, s.child[x], y)
              ELSE [s EXCEPT !.child[x] = y]
    IN  [s1 EXCEPT !.parent[y] = x, !.degree[x] = @ + 1, !.mark[y] = FALSE]

\* Fibonacci and Lucas numbers: phi^k = (Lucas(k) + Fib(k) * sqrt(5)) / 2.
RECURSIVE Fib(_)
Fib(k) == IF k < 2 THEN k ELSE Fib(k - 1) + Fib(k - 2)

RECURSIVE Lucas(_)
Lucas(k) == IF k = 0 THEN 2 ELSE IF k = 1 THEN 1 ELSE Lucas(k - 1) + Lucas(k - 2)

\* golden^k >= n, in integers.
PhiPowGE(k, n) ==
    LET d == 2 * n - Lucas(k)
    IN  d <= 0 \/ 5 * Fib(k) * Fib(k) >= d * d

\* ceil(log(n) / log(golden)) for n >= 1: the least k with golden^k >= n.
RECURSIVE CeilLogPhiFrom(_, _)
CeilLogPhiFrom(k, n) == IF PhiPowGE(k, n) THEN k ELSE CeilLogPhiFrom(k + 1, n)

\* A slot table of floor(log2(size)) slots.
RECURSIVE ArrayLen_FloorLog2(_)
ArrayLen_FloorLog2(size) == IF size < 2 THEN 0 ELSE 1 + ArrayLen_FloorLog2(size \div 2)

\* len(array) in _consolidate: int(np.ceil(np.log(self._size)/np.log(golden))+1)
ArrayLen(size) == CeilLogPhiFrom(0, size) + 1

\* _consolidate, first loop: while self._min: q.append(self._min); remove it.
RECURSIVE CollectRoots(_, _, _)
CollectRoots(s, h, q) ==
    IF ~Ok(s) \/ s._min[h] = None
    THEN [s |-> s, q |-> q]
    ELSE CollectRoots(_remove_from_root_list(s, h, s._min[h]), h, Append(q, s._min[h]))

\* The carry loop without the swap: x is always made the parent.
RECURSIVE Carry_NoSwap(_, _, _, _)
Carry_NoSwap(s, array, x, d) ==
    IF d >= Len(array)
    THEN [s |-> Raise(s, "IndexError"), array |-> array]
    ELSE IF array[d + 1] = None
         THEN [s |-> s, array |-> [array EXCEPT ![d + 1] = x]]
         ELSE Carry_NoSwap(_heap_link(s, array[d + 1], x),
                           [array EXCEPT ![d + 1] = None], x, d + 1)

\* _consolidate, the carry loop for one dequeued root x, from slot d (0-based);
\* array is kept as a sequence, slot d at index d + 1.
RECURSIVE Carry(_, _, _, _)
Carry(s, array, x, d) ==
    IF d >= Len(array)
    THEN [s |-> Raise(s, "IndexError"), array |-> array]
    ELSE IF array[d + 1] = None
         THEN [s |-> s, array |-> [array EXCEPT ![d + 1] = x]]
         ELSE LET y  == array[d + 1]
                  up == IF s.priority[x] > s.priority[y] THEN y ELSE x
                  dn == IF s.priority[x] > s.priority[y] THEN x ELSE y
              IN  Carry(_heap_link(s, dn, up), [array EXCEPT ![d + 1] = None], up, d + 1)

\* _consolidate, second loop: while len(q).
RECURSIVE LinkAll(_, _, _)
LinkAll(s, array, q) ==
    IF ~Ok(s) \/ q = <<>>
    THEN [s |-> s, array |-> array]
    ELSE LET r == Carry(s, array, Head(q), s.degree[Head(q)])
         IN  LinkAll(r.s, r.array, Tail(q))

\* The third loop without its comparison: _min stays the first tree found.
RECURSIVE Rebuild_FirstIsMin(_, _, _, _)
Rebuild_FirstIsMin(s, h, array, i) ==
    IF i > Len(array)
    THEN s
    ELSE LET elem == array[i]
             s1 == IF elem = None
                   THEN s
                   ELSE IF s._min[h] = None
                        THEN [s EXCEPT !._min[h] = elem]
                        ELSE _insert_to_root_list(s, h, elem)
         IN  Rebuild_FirstIsMin(s1, h, array, i + 1)

\* _consolidate, third loop: for elem in array, from slot i.
RECURSIVE Rebuild(_, _, _, _)
Rebuild(s, h, array, i) ==
    IF i > Len(array)
    THEN s
    ELSE LET elem == array[i]
             s1 == IF elem = None
                   THEN s
                   ELSE IF s._min[h] = None
                        THEN [s EXCEPT !._min[h] = elem]
                        ELSE LET t == _insert_to_root_list(s, h, elem)
                             IN  IF t.priority[elem] < t.priority[t._min[h]]
                                 THEN [t EXCEPT !._min[h] = elem]
                                 ELSE t
         IN  Rebuild(s1, h, array, i + 1)

(* FibonacciHeap._consolidate *)
_consolidate(s, h) ==
    IF s._size[h] = 0 THEN Raise(s, "OverflowError")
    ELSE IF s._size[h] < 0 THEN Raise(s, "ValueError")
    ELSE LET array == [i \in 1..ArrayLen(s._size[h]) |-> None]
             c == CollectRoots(s, h, <<>>)
             l == LinkAll(c.s, array, c.q)
         IN  IF Ok(l.s) THEN Rebuild(l.s, h, l.array, 1) ELSE l.s

\* A promotion loop that moves only the first child to the root list.
Promote_FirstOnly(s, h, z, x) ==
    LET s1 == [s EXCEPT !.parent[x] = None]
        s2 == _insert_to_root_list(s1, h, x)
    IN  [s2 EXCEPT !.child[z] = None]

\* extract_min, the promotion loop, at child x of z.
RECURSIVE Promote(_, _, _, _)
Promote(s, h, z, x) ==
    LET next_child == s.right[x]
        s1 == [s EXCEPT !.parent[x] = None]
        s2 == _insert_to_root_list(s1, h, x)
    IN  IF next_child = s2.child[z]
        THEN [s2 EXCEPT !.child[z] = None]
        ELSE Promote(s2, h, z, next_child)

\* extract_min with self._size -= 1 outside the test for an empty heap.
extract_min_AlwaysDecrements(s, h) ==
    LET z == s._min[h]
    IN  IF z = None
        THEN [s EXCEPT !._size[h] = @ - 1, !.ret = None]
        ELSE LET s1 == IF s.child[z] # None THEN Promote(s, h, z, s.child[z]) ELSE s
                 s2 == IF z = s1.right[z]
                       THEN _remove_from_root_list([s1 EXCEPT !._min[h] = None], h, z)
                       ELSE LET t == _remove_from_root_list(
                                         [s1 EXCEPT !._min[h] = s1.right[z]], h, z)
                            IN  IF Ok(t) THEN _consolidate(t, h) ELSE t
             IN  IF Ok(s2)
                 THEN [s2 EXCEPT !._size[h] = @ - 1, !.ret = z]
                 ELSE s2

(* FibonacciHeap.extract_min *)
extract_min(s, h) ==
    LET z == s._min[h]
    IN  IF z = None
        THEN [s EXCEPT !.ret = None]
        ELSE LET s1 == IF s.child[z] # None THEN Promote(s, h, z, s.child[z]) ELSE s
                 s2 == IF z = s1.right[z]
                       THEN _remove_from_root_list([s1 EXCEPT !._min[h] = None], h, z)
                       ELSE LET t == _remove_from_root_list(
                                         [s1 EXCEPT !._min[h] = s1.right[z]], h, z)
                            IN  IF Ok(t) THEN _consolidate(t, h) ELSE t
             IN  IF Ok(s2)
                 THEN [s2 EXCEPT !._size[h] = @ - 1, !.ret = z]
                 ELSE s2

-----------------------------------------------------------------------------
(* FibonacciHeap._cut: x leaves the children of y for the root list of heap h *)
_cut(s, h, x, y) ==
    IF s.parent[x] # y
    THEN Raise(s, "AssertionError")
    ELSE LET s1 == IF s.right[x] = x
                   THEN [s EXCEPT !.child[y] = None]
                   ELSE LET a == [s EXCEPT !.child[y] = s.right[x]]
                            b == [a EXCEPT !.parent[a.right[x]] = y]
                            c == [b EXCEPT !.left[b.right[x]] = b.left[x]]
                        IN  [c EXCEPT !.right[c.left[x]] = c.right[x]]
             s2 == _insert_to_root_list(s1, h, x)
         IN  [s2 EXCEPT !.degree[y] = @ - 1, !.mark[x] = FALSE]

\* _cascading_cut that leaves a marked y where it is.
_cascading_cut_NeverCuts(s, h, y) ==
    IF ~Ok(s) \/ s.parent[y] = None THEN s ELSE [s EXCEPT !.mark[y] = TRUE]

(* FibonacciHeap._cascading_cut *)
RECURSIVE _cascading_cut(_, _, _)
_cascading_cut(s, h, y) ==
    LET z == s.parent[y]
    IN  IF ~Ok(s) \/ z = None
        THEN s
        ELSE IF ~s.mark[y]
             THEN [s EXCEPT !.mark[y] = TRUE]
             ELSE _cascading_cut(_cut(s, h, y, z), h, z)

\* decrease_key that stores the new priority before it checks it.
decrease_key_StoreFirst(s, h, x, new_priority) ==
    IF new_priority >= s.priority[x]
    THEN Raise([s EXCEPT !.priority[x] = new_priority], "ValueError")
    ELSE LET s1 == [s EXCEPT !.priority[x] = new_priority]
             y  == s1.parent[x]
             s2 == IF y # None /\ s1.priority[x] < s1.priority[y]
                   THEN _cascading_cut(_cut(s1, h, x, y), h, y)
                   ELSE s1
         IN  IF s2._min[h] = None THEN Raise(s2, "AttributeError")
             ELSE IF s2.priority[x] < s2.priority[s2._min[h]]
                  THEN [s2 EXCEPT !._min[h] = x]
                  ELSE s2

\* decrease_key that also cuts x when its new priority equals its parent's.
decrease_key_CutsOnTie(s, h, x, new_priority) ==
    IF new_priority >= s.priority[x]
    THEN Raise(s, IF new_priority = NegInf \/ s.priority[x] = NegInf
                  THEN "OverflowError" ELSE "ValueError")
    ELSE LET s1 == [s EXCEPT !.priority[x] = new_priority]
             y  == s1.parent[x]
             s2 == IF y # None /\ s1.priority[x] <= s1.priority[y]
                   THEN _cascading_cut(_cut(s1, h, x, y), h, y)
                   ELSE s1
         IN  IF ~Ok(s2) THEN s2
             ELSE IF s2._min[h] = None THEN Raise(s2, "AttributeError")
             ELSE IF s2.priority[x] < s2.priority[s2._min[h]]
                  THEN [s2 EXCEPT !._min[h] = x]
                  ELSE s2

(* FibonacciHeap.decrease_key.  The message of the ValueError is built with *)
(* "%d", which itself raises OverflowError on an infinite priority.         *)
decrease_key(s, h, x, new_priority) ==
    IF new_priority >= s.priority[x]
    THEN Raise(s, IF new_priority = NegInf \/ s.priority[x] = NegInf
                  THEN "OverflowError" ELSE "ValueError")
    ELSE LET s1 == [s EXCEPT !.priority[x] = new_priority]
             y  == s1.parent[x]
             s2 == IF y # None /\ s1.priority[x] < s1.priority[y]
                   THEN _cascading_cut(_cut(s1, h, x, y), h, y)
                   ELSE s1
         IN  IF ~Ok(s2) THEN s2
             ELSE IF s2._min[h] = None THEN Raise(s2, "AttributeError")
             ELSE IF s2.priority[x] < s2.priority[s2._min[h]]
                  THEN [s2 EXCEPT !._min[h] = x]
                  ELSE s2

(* FibonacciHeap.delete; it returns nothing *)
delete(s, h, x) ==
    LET s1 == decrease_key(s, h, x, NegInf)
    IN  IF Ok(s1) THEN [extract_min(s1, h) EXCEPT !.ret = None] ELSE s1

(* FibonacciHeap.min *)
min(s, h) == s._min[h]

(* FibonacciHeap.size *)
size(s, h) == s._size[h]

(* FibonacciHeap._clear *)
_clear(s, h) == [s EXCEPT !._min[h] = None, !._size[h] = 0]

\* merge whose splice closes heap b's roots back onto min_one: the roots
\* that followed min_one drop out of the ring.
merge_DropsTail(s, a, b) ==
    LET min_one == s._min[a]
        min_two == s._min[b]
    IN  IF min_one # None /\ min_two = None
        THEN Raise(s, "AttributeError")
        ELSE LET s1 == IF min_one # None
                       THEN LET min_two_right == s.right[min_two]
                            IN  IF min_two # min_two_right
                                THEN LET r1 == [s EXCEPT !.right[min_one] = min_two_right]
                                         r2 == [r1 EXCEPT !.left[min_two_right] = min_one]
                                         r3 == [r2 EXCEPT !.right[min_two] = min_one]
                                     IN  [r3 EXCEPT !.left[min_one] = min_two]
                                ELSE _insert_to_root_list(s, a, min_two)
                       ELSE [s EXCEPT !._min[a] = min_two]
                 s2 == [s1 EXCEPT !._size[a] = @ + s1._size[b]]
             IN  _clear(s2, b)

(* FibonacciHeap.merge: heap a takes the roots of heap b.  The splice       *)
(*   min_one.right, min_two.right.left, min_two.right, min_one_right.left = *)
(*       min_two.right, min_one, min_one_right, min_two                     *)
(* evaluates its right side first and assigns its targets left to right.    *)
merge(s, a, b) ==
    LET min_one == s._min[a]
        min_two == s._min[b]
    IN  IF min_one # None /\ min_two = None
        THEN Raise(s, "AttributeError")
        ELSE LET s1 == IF min_one # None
                       THEN LET min_one_right == s.right[min_one]
                                min_two_right == s.right[min_two]
                            IN  IF min_two # min_two_right
                                THEN LET r1 == [s EXCEPT !.right[min_one] = min_two_right]
                                         r2 == [r1 EXCEPT !.left[r1.right[min_two]] = min_one]
                                         r3 == [r2 EXCEPT !.right[min_two] = min_one_right]
                                     IN  [r3 EXCEPT !.left[min_one_right] = min_two]
                                ELSE _insert_to_root_list(s, a, min_two)
                       ELSE [s EXCEPT !._min[a] = min_two]
                 s2 == [s1 EXCEPT !._size[a] = @ + s1._size[b]]
             IN  _clear(s2, b)

(* FibonacciHeap.__init__ *)
FibonacciHeap(s, h) == [s EXCEPT !._size[h] = 0, !._min[h] = None]

(* union: a new heap takes heap1, then heap2 *)
union(s, heap, heap1, heap2) ==
    LET s0 == FibonacciHeap(s, heap)
        s1 == merge(s0, heap, heap1)
    IN  IF Ok(s1) THEN merge(s1, heap, heap2) ELSE s1

-----------------------------------------------------------------------------
\* Writes a heap memory back to the variables.
Commit(s) ==
    /\ priority' = s.priority
    /\ left' = s.left
    /\ right' = s.right
    /\ parent' = s.parent
    /\ child' = s.child
    /\ degree' = s.degree
    /\ mark' = s.mark
    /\ _min' = s._min
    /\ _size' = s._size
    /\ err' = s.err
    /\ ret' = s.ret
    /\ UNCHANGED <<_heap, _dict>>

\* The record of child losses after the cuts that lead from the parent links
\* p0 to p1: an Element that is still a child has lost one if a child of it
\* in p0 is no longer its child in p1; an Element at root level has none on
\* record.
AfterCut(l, p0, p1) ==
    [n \in Nodes |->
        /\ p1[n] # None
        /\ \/ l[n]
           \/ \E c \in Nodes : p0[c] = n /\ p1[c] # n]

\* The record of child losses after the links that lead from the parent links
\* p1 to p2: an Element that has a new parent starts again with none.
AfterLink(l, p1, p2) ==
    [n \in Nodes |-> p2[n] # None /\ p2[n] = p1[n] /\ l[n]]

\* Keeps the record over a call that first cuts (up to memory s1), then links
\* (up to memory s2).
Track(s1, s2) ==
    \E p1 \in {s1.parent}, p2 \in {s2.parent} :
        \E l \in {AfterCut(lost, parent, p1)} :
            lost' = AfterLink(l, p1, p2)

Init ==
    /\ priority = [n \in Nodes |-> NegInf]
    /\ left = [n \in Nodes |-> n]
    /\ right = [n \in Nodes |-> n]
    /\ parent = [n \in Nodes |-> None]
    /\ child = [n \in Nodes |-> None]
    /\ degree = [n \in Nodes |-> 0]
    /\ mark = [n \in Nodes |-> FALSE]
    /\ _min = [h \in Heaps \cup {UnionHeap} |-> None]
    /\ _size = [h \in Heaps \cup {UnionHeap} |-> 0]
    /\ _heap = <<>>
    /\ _dict = [o \in {} |-> 0]
    /\ alloc = 0
    /\ owner = [n \in Nodes |-> None]
    /\ lost = [n \in Nodes |-> FALSE]
    /\ call = "init"
    /\ err = "none"
    /\ ret = None

\* The Elements heap h holds: the handles a client may use on it.
Live(h) == {n \in Nodes : owner[n] = h}

\* The Elements that were in a heap and have been taken out of it.
Removed == {n \in 1..alloc : owner[n] = None}

\* heap h: insert(x, p); the new Element is the next unused one.
InsertCall(h, p) ==
    /\ alloc < Cardinality(Nodes)
    /\ \E s \in {insert(Mem, h, alloc + 1, p)} : Commit(s) /\ Track(Mem, s)
    /\ call' = "insert"
    /\ alloc' = alloc + 1
    /\ owner' = [owner EXCEPT ![alloc + 1] = h]

\* heap h: extract_min()
ExtractMinCall(h) ==
    /\ \E s \in {extract_min(Mem, h)} :
           /\ Commit(s)
           /\ owner' = IF Ok(s) /\ s.ret # None THEN [owner EXCEPT ![s.ret] = None] ELSE owner
           /\ Track(Mem, s)
    /\ call' = "extract_min"
    /\ UNCHANGED alloc

\* heap h: decrease_key(x, p)
DecreaseKeyCall(h, x, p) ==
    /\ \E s \in {decrease_key(Mem, h, x, p)} : Commit(s) /\ Track(s, s)
    /\ call' = "decrease_key"
    /\ UNCHANGED <<alloc, owner>>

\* The Element that delete(x) on heap h takes out of the heap: the one its
\* inner extract_min unlinks (None if delete raises first).
Unlinked(h, x) ==
    LET s1 == decrease_key(Mem, h, x, NegInf)
        s2 == IF Ok(s1) THEN extract_min(s1, h) ELSE s1
    IN  IF Ok(s2) THEN s2.ret ELSE None

\* heap h: delete(x)
DeleteCall(h, x) ==
    /\ \E s1 \in {decrease_key(Mem, h, x, NegInf)}, s2 \in {delete(Mem, h, x)} :
          Commit(s2) /\ Track(s1, s2)
    /\ \E u \in {Unlinked(h, x)} :
          owner' = IF u # None THEN [owner EXCEPT ![u] = None] ELSE owner
    /\ call' = "delete"
    /\ UNCHANGED alloc

\* heap a: merge(b), for two different heaps.
MergeCall(a, b) ==
    /\ a # b
    /\ \E s \in {merge(Mem, a, b)} :
           /\ Commit(s)
           /\ owner' = IF Ok(s)
                       THEN [n \in Nodes |-> IF owner[n] = b THEN a ELSE owner[n]]
                       ELSE owner
           /\ Track(Mem, s)
    /\ call' = "merge"
    /\ UNCHANGED alloc

\* heap h: decrease_key(x, p) with the handle of an Element taken out earlier.
StaleDecreaseKeyCall(h, x, p) ==
    /\ \E s \in {decrease_key(Mem, h, x, p)} : Commit(s) /\ Track(s, s)
    /\ call' = "stale_decrease_key"
    /\ UNCHANGED <<alloc, owner>>

\* heap h: delete(x) with the handle of an Element taken out earlier.
StaleDeleteCall(h, x) ==
    /\ \E s1 \in {decrease_key(Mem, h, x, NegInf)}, s2 \in {delete(Mem, h, x)} :
          Commit(s2) /\ Track(s1, s2)
    /\ \E u \in {Unlinked(h, x)} :
          owner' = IF u # None THEN [owner EXCEPT ![u] = None] ELSE owner
    /\ call' = "stale_delete"
    /\ UNCHANGED alloc

\* heap h: decrease_key(x, p) with the handle of an Element of another heap.
ForeignDecreaseKeyCall(h, x, p) ==
    /\ \E s \in {decrease_key(Mem, h, x, p)} : Commit(s) /\ Track(s, s)
    /\ call' = "foreign_decrease_key"
    /\ UNCHANGED <<alloc, owner>>

\* heap h: delete(x) with the handle of an Element of another heap.
ForeignDeleteCall(h, x) ==
    /\ \E s1 \in {decrease_key(Mem, h, x, NegInf)}, s2 \in {delete(Mem, h, x)} :
          Commit(s2) /\ Track(s1, s2)
    /\ \E u \in {Unlinked(h, x)} :
          owner' = IF u # None THEN [owner EXCEPT ![u] = None] ELSE owner
    /\ call' = "foreign_delete"
    /\ UNCHANGED alloc

\* union(heap1, heap2), for two different heaps: the Elements go where the
\* merges that returned have put them.
UnionCall(heap1, heap2) ==
    /\ heap1 # heap2
    /\ \E s1 \in {merge(FibonacciHeap(Mem, UnionHeap), UnionHeap, heap1)},
           s2 \in {union(Mem, UnionHeap, heap1, heap2)} :
           /\ Commit(s2)
           /\ owner' = [n \in Nodes |->
                          IF (owner[n] = heap1 /\ Ok(s1)) \/ (owner[n] = heap2 /\ Ok(s2))
                          THEN UnionHeap ELSE owner[n]]
           /\ Track(Mem, s2)
    /\ call' = "union"
    /\ UNCHANGED alloc

\* A client inserts a finite priority, up to maxn Elements in all.
Insert(h, maxn, maxp) == \E p \in 1..maxp : alloc < maxn /\ InsertCall(h, p)

\* A client inserts a finite priority that no Element of the heap has.
InsertDistinct(h, maxn, maxp) ==
    \E p \in 1..maxp :
        /\ alloc < maxn
        /\ \A n \in Live(h) : priority[n] # p
        /\ InsertCall(h, p)

ExtractMin(h) == ExtractMinCall(h)

\* A client calls decrease_key on a handle of the heap, with any priority.
DecreaseKey(h, maxp) ==
    \E x \in Live(h), p \in PrioritiesTo(maxp) : DecreaseKeyCall(h, x, p)

\* A client calls delete on a handle of the heap.
Delete(h) == \E x \in Live(h) : DeleteCall(h, x)

\* Heap 1 absorbs heap 2, which the client may then fill again.
Merge == MergeCall(1, 2)

\* A client has used a stale handle: the run is followed no further.
Misused == call \in {"stale_decrease_key", "stale_delete"}

StaleDecreaseKey(h, maxp) ==
    /\ ~Misused
    /\ \E x \in Removed, p \in PrioritiesTo(maxp) : StaleDecreaseKeyCall(h, x, p)

StaleDelete(h) ==
    /\ ~Misused
    /\ \E x \in Removed : StaleDeleteCall(h, x)

\* One heap, used as its interface asks.
Next ==
    \/ Insert(1, MaxNodes, MaxPri)
    \/ ExtractMin(1)
    \/ DecreaseKey(1, MaxPri)
    \/ Delete(1)

Spec == Init /\ [][Next]_vars

\* One heap, more Elements, fewer priorities: trees of two levels, marks.
NextDeep ==
    \/ Insert(1, DeepNodes, DeepPri)
    \/ ExtractMin(1)
    \/ DecreaseKey(1, DeepPri)
    \/ Delete(1)

SpecDeep == Init /\ [][NextDeep]_vars

\* One heap, filled with pairwise different priorities and emptied.
NextSort ==
    \/ InsertDistinct(1, SortNodes, SortPri)
    \/ ExtractMin(1)

SpecSort == Init /\ [][NextSort]_vars

\* Two heaps and merge.
NextMerge ==
    \/ \E h \in Heaps : \/ Insert(h, MaxNodes, MergePri)
                        \/ ExtractMin(h)
                        \/ DecreaseKey(h, MergePri)
                        \/ Delete(h)
    \/ Merge

SpecMerge == Init /\ [][NextMerge]_vars

\* Two heaps, more Elements: heap 2 is filled by insert and extract_min and
\* absorbed by heap 1, which takes insert and decrease_key.
NextAbsorb ==
    \/ Insert(1, DeepNodes, MergePri)
    \/ Insert(2, DeepNodes, MergePri)
    \/ ExtractMin(2)
    \/ DecreaseKey(1, MergePri)
    \/ Merge

SpecAbsorb == Init /\ [][NextAbsorb]_vars

\* A client has passed heap 1 a handle of heap 2: the run is followed no
\* further.
Trespassed == call \in {"foreign_decrease_key", "foreign_delete"}

ForeignDecreaseKey(h, g, maxp) ==
    /\ ~Trespassed
    /\ \E x \in Live(g), p \in PrioritiesTo(maxp) : ForeignDecreaseKeyCall(h, x, p)

ForeignDelete(h, g) ==
    /\ ~Trespassed
    /\ \E x \in Live(g) : ForeignDeleteCall(h, x)

\* Two heaps used side by side (insert, extract_min, decrease_key), and one
\* call on heap 1 that passes the handle of an Element of heap 2.
NextForeign ==
    \/ /\ ~Trespassed
       /\ \E h \in Heaps : \/ Insert(h, MaxNodes, MergePri)
                           \/ ExtractMin(h)
                           \/ DecreaseKey(h, MergePri)
    \/ ForeignDecreaseKey(1, 2, MergePri)
    \/ ForeignDelete(1, 2)

SpecForeign == Init /\ [][NextForeign]_vars

\* union has been called: the run is followed no further.
United == call = "union"

Union == ~United /\ UnionCall(1, 2)

\* Two heaps used side by side (insert, extract_min, decrease_key), then
\* handed to union.
NextUnion ==
    \/ /\ ~United
       /\ \E h \in Heaps : \/ Insert(h, MaxNodes, MergePri)
                           \/ ExtractMin(h)
                           \/ DecreaseKey(h, MergePri)
    \/ Union

SpecUnion == Init /\ [][NextUnion]_vars

\* One heap, and one call that passes the handle of an Element that is no
\* longer in it.
NextStale ==
    \/ ~Misused /\ Next
    \/ StaleDecreaseKey(1, MaxPri)
    \/ StaleDelete(1)

SpecStale == Init /\ [][NextStale]_vars

-----------------------------------------------------------------------------
(* What the links of a heap memory reach. *)

\* The Elements one link (right or child) away from n.
Succ(s, n) == {s.right[n]} \cup (IF s.child[n] # None THEN {s.child[n]} ELSE {})

RECURSIVE ReachFrom(_, _)
ReachFrom(s, S) ==
    LET T == S \cup UNION {Succ(s, n) : n \in S}
    IN  IF T = S THEN S ELSE ReachFrom(s, T)

\* Every Element reachable from heap h's _min through right and child links.
Reach(s, h) == IF s._min[h] = None THEN {} ELSE ReachFrom(s, {s._min[h]})

RECURSIVE RingFrom(_, _)
RingFrom(s, S) ==
    LET T == S \cup {s.right[n] : n \in S}
    IN  IF T = S THEN S ELSE RingFrom(s, T)

\* The root ring of heap h: what following right from _min visits.
RootRing(s, h) == IF s._min[h] = None THEN {} ELSE RingFrom(s, {s._min[h]})

\* extract_min called again and again on heap h until it returns None (or
\* raises, or fuel calls have returned an Element): what the calls returned,
\* with the priority each Element had when it was returned, and how it ended.
RECURSIVE Drain(_, _, _)
Drain(s, h, fuel) ==
    LET t == extract_min([s EXCEPT !.ret = None], h)
    IN  IF ~Ok(t) THEN [out |-> <<>>, end |-> "raised"]
        ELSE IF t.ret = None THEN [out |-> <<>>, end |-> "empty"]
        ELSE IF fuel = 0 THEN [out |-> <<>>, end |-> "more"]
        ELSE LET d == Drain(t, h, fuel - 1)
             IN  [out |-> <<[node |-> t.ret, priority |-> t.priority[t.ret]]>> \o d.out,
                  end |-> d.end]

DrainNow(h) == Drain(Mem, h, Cardinality(Live(h)))

-----------------------------------------------------------------------------
(* Claims on one heap (Spec, SpecSort). *)

\* C1: after any sequence of insert, extract_min, decrease_key and delete on
\* live handles of one heap, min() is None exactly when the heap holds no
\* Element, and otherwise is a root of the heap's root ring whose priority is
\* less than or equal to the priority of every Element the heap holds.
C1_MinIsMinimum ==
    \A h \in Heaps :
        IF Live(h) = {}
        THEN _min[h] = None
        ELSE /\ _min[h] \in Live(h)
             /\ parent[_min[h]] = None
             /\ \A n \in Live(h) : priority[_min[h]] <= priority[n]

\* A decrease_key has just succeeded on a heap of at least three Elements
\* that has a linked tree and Elements of different priorities.
C1_Witness ==
    /\ call = "decrease_key" /\ err = "none"
    /\ Cardinality(Live(1)) >= 3
    /\ \E n \in Live(1) : parent[n] # None
    /\ \E n \in Live(1) : priority[n] > priority[_min[1]]

\* C2: from any heap reached by insert, decrease_key, delete and extract_min,
\* repeated extract_min returns Elements in non-decreasing priority order and,
\* after at most as many Elements as the heap holds, returns None.
C2_DrainSorted ==
    \A h \in Heaps :
        LET d == DrainNow(h)
        IN  /\ d.end = "empty"
            /\ \A i \in 1..(Len(d.out) - 1) : d.out[i].priority <= d.out[i + 1].priority

\* The heap holds three Elements of three different priorities, one of them
\* a child, right after an extract_min returned an Element.
C2_Witness ==
    /\ call = "extract_min" /\ ret # None
    /\ Cardinality(Live(1)) = 3
    /\ Cardinality({priority[n] : n \in Live(1)}) = 3
    /\ \E n \in Live(1) : parent[n] # None
    /\ Len(DrainNow(1).out) = 3

\* C3: for Elements of pairwise different priorities inserted into an empty
\* heap, extracting until empty returns exactly the Elements the heap holds,
\* each exactly once: none is lost and none is returned twice, whatever
\* promotions and consolidations the extract_min calls so far have done.
C3_DrainExact ==
    \A h \in Heaps :
        LET out == DrainNow(h).out
        IN  /\ {out[i].node : i \in 1..Len(out)} = Live(h)
            /\ Len(out) = Cardinality(Live(h))

\* An extract_min has just returned a minimum that had two children, which
\* it promoted; three Elements of three different priorities remain, and the
\* drain returns exactly these three.
C3_Witness ==
    /\ call = "extract_min" /\ ret # None /\ degree[ret] = 2
    /\ Cardinality(Live(1)) = 3
    /\ Cardinality({priority[n] : n \in Live(1)}) = 3
    /\ {DrainNow(1).out[i].node : i \in 1..3} = Live(1)

\* C4: after every operation, along every parent-child edge of the forest
\* parent.priority <= child.priority.
C4_HeapOrder ==
    \A n \in Nodes :
        (owner[n] # None /\ parent[n] # None) => priority[parent[n]] <= priority[n]

\* A decrease_key has just succeeded and left a child at exactly the finite
\* priority of its parent, beside a root of larger priority.
C4_Witness ==
    /\ call = "decrease_key" /\ err = "none"
    /\ \E n \in Live(1) : /\ parent[n] # None
                           /\ priority[n] = priority[parent[n]]
                           /\ priority[n] # NegInf
    /\ \E n \in Live(1) : parent[n] = None /\ priority[n] > priority[_min[1]]

-----------------------------------------------------------------------------
(* Claims on merge (SpecMerge). *)

\* The heap memory after the step.
MemNext == [priority |-> priority', left |-> left', right |-> right', parent |-> parent',
            child |-> child', degree |-> degree', mark |-> mark',
            _min |-> _min', _size |-> _size', err |-> err', ret |-> ret']

Smaller(p, q) == IF p <= q THEN p ELSE q

RECURSIVE LeftRingFrom(_, _)
LeftRingFrom(s, S) ==
    LET T == S \cup {s.left[n] : n \in S}
    IN  IF T = S THEN S ELSE LeftRingFrom(s, T)

\* What following left from heap h's _min visits.
LeftRing(s, h) == IF s._min[h] = None THEN {} ELSE LeftRingFrom(s, {s._min[h]})

\* C5: after a.merge(b) on two non-empty heaps, a.min() has the smaller of
\* the priorities of the two minima before the merge, and is b's former
\* minimum when that one was strictly smaller.
C5_MergeTakesSmallerMin ==
    [][\A a, b \in Heaps :
        (MergeCall(a, b) /\ _min[a] # None /\ _min[b] # None)
        => /\ _min'[a] # None
           /\ priority'[_min'[a]] = Smaller(priority[_min[a]], priority[_min[b]])
           /\ (priority[_min[b]] < priority[_min[a]] => _min'[a] = _min[b])]_vars

C7_MergeEmptyOther ==
    [][\A a, b \in Heaps :
        (MergeCall(a, b) /\ _min[a] # None /\ _min[b] = None)
        => /\ err' = "none"
           /\ _size'[a] = _size[a] /\ _min'[a] = _min[a]
           /\ UNCHANGED <<priority, left, right, parent, child, degree, mark>>
           /\ _size'[b] = 0 /\ _min'[b] = None]_vars

-----------------------------------------------------------------------------
(* Claims on rejection and deletion (Spec, SpecStale). *)

\* C8: decrease_key(x, p) with p >= the current priority of x raises, and
\* leaves size, min, every priority, link, degree and mark as they were.
C8_RejectedDecreaseKey ==
    [][\A x \in Live(1), p \in PrioritiesTo(MaxPri) :
        (DecreaseKeyCall(1, x, p) /\ p >= priority[x])
        => /\ err' # "none"
           /\ UNCHANGED <<priority, left, right, parent, child, degree, mark,
                          _min, _size>>]_vars

\* A decrease_key has just raised ValueError on a heap that has a tree with a
\* child and a root whose finite priority is below MaxPri.
C8_Witness ==
    /\ call = "decrease_key" /\ err = "ValueError"
    /\ \E n \in Live(1) : parent[n] # None
    /\ \E n \in Live(1) : priority[n] # NegInf /\ priority[n] < MaxPri

\* C9: delete(x) on a live handle returns with the size one less, x no longer
\* in the heap, and every other Element still in it at its old priority.
C9_DeleteRemovesIt ==
    [][\A x \in Live(1) :
        DeleteCall(1, x)
        => /\ err' = "none"
           /\ _size'[1] = _size[1] - 1
           /\ Reach(MemNext, 1) = Reach(Mem, 1) \ {x}
           /\ \A n \in Reach(Mem, 1) \ {x} : priority'[n] = priority[n]]_vars

\* C10: decrease_key or delete with the handle of an Element that extract_min
\* or delete took out earlier raises, and leaves size, min and the Elements
\* in the heap as they were.
C10_StaleHandleRejected ==
    [][\A x \in Removed :
        (\/ StaleDeleteCall(1, x)
         \/ \E p \in PrioritiesTo(MaxPri) : StaleDecreaseKeyCall(1, x, p))
        => /\ err' # "none"
           /\ _size'[1] = _size[1] /\ _min'[1] = _min[1]
           /\ Reach(MemNext, 1) = Reach(Mem, 1)]_vars

-----------------------------------------------------------------------------
(* Claims on the shape of the forest (SpecDeep, SpecMerge, SpecAbsorb). *)

\* The Elements that are in some heap.
Present == {n \in Nodes : owner[n] # None}

\* The ring reached from p.child.
ChildRing(s, p) == IF s.child[p] = None THEN {} ELSE RingFrom(s, {s.child[p]})

\* The Elements in a heap whose parent is p.
ChildrenOf(p) == {n \in Present : parent[n] = p}

\* C12: after any sequence of operations, every Element of a root list (in a
\* heap, with no parent) has mark = FALSE.
C12_RootsUnmarked ==
    \A n \in Present : parent[n] = None => ~mark[n]

\* C13: for every Element p in a heap, p.degree is the number of Elements in
\* the ring reached from p.child, that ring is exactly the Elements whose
\* parent is p, and p.child is None exactly when p.degree is 0.
C13_DegreeCountsChildren ==
    \A p \in Present :
        /\ degree[p] = Cardinality(ChildRing(Mem, p))
        /\ ChildRing(Mem, p) = ChildrenOf(p)
        /\ (child[p] = None <=> degree[p] = 0)

\* C14: the sibling links of every Element in a heap form circular doubly
\* linked rings: right and left are inverse, following right from n comes
\* back to n, a ring of one is a self-loop, the ring reached from _min is
\* exactly the heap's Elements without a parent, and the ring reached from
\* p.child is exactly the Elements whose parent is p.
C14_RingsWellFormed ==
    /\ \A n \in Present :
        /\ left[right[n]] = n
        /\ right[left[n]] = n
        /\ n \in RingFrom(Mem, {right[n]})
        /\ (Cardinality(RingFrom(Mem, {n})) = 1 => (right[n] = n /\ left[n] = n))
        /\ ChildRing(Mem, n) = ChildrenOf(n)
    /\ \A h \in Heaps : RootRing(Mem, h) = {n \in Live(h) : parent[n] = None}

-----------------------------------------------------------------------------
(* Claims on size, emptiness and consolidation (Spec, SpecDeep, SpecMerge). *)

\* C15: in every state size() is the number of Elements reachable from min
\* through right and child links; insert adds exactly 1 to it, an extract_min
\* on a non-empty heap and a delete subtract exactly 1, decrease_key leaves
\* it as it was.
C15_SizeCountsElements ==
    /\ [](\A h \in Heaps : size(Mem, h) = Cardinality(Reach(Mem, h)))
    /\ [][\A h \in Heaps :
            /\ (\E p \in 1..MergePri : InsertCall(h, p))
               => size(MemNext, h) = size(Mem, h) + 1
            /\ (ExtractMinCall(h) /\ Live(h) # {})
               => size(MemNext, h) = size(Mem, h) - 1
            /\ (\E x \in Live(h) : DeleteCall(h, x))
               => size(MemNext, h) = size(Mem, h) - 1
            /\ (\E x \in Live(h), p \in PrioritiesTo(MergePri) : DecreaseKeyCall(h, x, p))
               => size(MemNext, h) = size(Mem, h)]_vars

\* C16: in every state min() is None if and only if size() is 0.
C16_MinNoneIffSizeZero ==
    \A h \in Heaps : min(Mem, h) = None <=> size(Mem, h) = 0

\* C17: on a heap that holds no Element, min() is None, and extract_min
\* returns None without raising and leaves min() None, size() 0 and every
\* field of every Element as it was.
C17_EmptyHeapCalls ==
    [][(ExtractMinCall(1) /\ Live(1) = {})
        => /\ min(Mem, 1) = None
           /\ err' = "none" /\ ret' = None
           /\ size(MemNext, 1) = 0
           /\ min(MemNext, 1) = None
           /\ UNCHANGED <<priority, left, right, parent, child, degree, mark>>]_vars

\* extract_min has just returned None on a heap that was filled and emptied
\* before: four Elements went through it.
C17_Witness ==
    /\ call = "extract_min" /\ err = "none" /\ ret = None
    /\ alloc = MaxNodes /\ Live(1) = {}
    /\ size(Mem, 1) = 0 /\ min(Mem, 1) = None

\* The degrees of the roots of heap h are pairwise different.
DistinctRootDegrees(s, h) ==
    \A m, n \in RootRing(s, h) : s.degree[m] = s.degree[n] => m = n

\* C18: right after every extract_min and every delete that leaves the heap
\* non-empty, no two roots have the same degree, and every Element that was a
\* root or a child of the removed Element before the call is still reachable
\* from min.
C18_ConsolidatedAfterRemoval ==
    [][/\ (ExtractMinCall(1) /\ Live(1) # {} /\ Cardinality(Live(1)) > 1)
          => /\ DistinctRootDegrees(MemNext, 1)
             /\ (RootRing(Mem, 1) \cup ChildRing(Mem, _min[1])) \ {_min[1]}
                    \subseteq Reach(MemNext, 1)
       /\ \A x \in Live(1) :
            (DeleteCall(1, x) /\ Cardinality(Live(1)) > 1)
            => /\ DistinctRootDegrees(MemNext, 1)
               /\ (RootRing(Mem, 1) \cup ChildRing(Mem, x)) \ {x}
                      \subseteq Reach(MemNext, 1)]_vars

-----------------------------------------------------------------------------
(* Claims on handles of another heap and on union (SpecForeign, SpecUnion). *)

\* C11: decrease_key or delete on heap 1 with the handle of an Element that
\* lives in heap 2 raises, and leaves both heaps as they were: both sizes,
\* both minima, both root rings and what each heap reaches.
C11_ForeignHandleRejected ==
    [][\A x \in Live(2) :
        (\/ ForeignDeleteCall(1, x)
         \/ \E p \in PrioritiesTo(MergePri) : ForeignDecreaseKeyCall(1, x, p))
        => /\ err' # "none"
           /\ \A h \in Heaps :
                /\ size(MemNext, h) = size(Mem, h)
                /\ min(MemNext, h) = min(Mem, h)
                /\ RootRing(MemNext, h) = RootRing(Mem, h)
                /\ Reach(MemNext, h) = Reach(Mem, h)]_vars

\* C19: union(h1, h2), either heap possibly empty, returns without raising a
\* heap that reaches exactly the Elements of both, whose size is the sum of
\* the two sizes and whose min is an Element of least priority among them
\* (None if there is none); afterwards h1 and h2 have size 0 and no min.
C19_UnionOfTwoHeaps ==
    [][UnionCall(1, 2)
        => /\ err' = "none"
           /\ Reach(MemNext, UnionHeap) = Live(1) \cup Live(2)
           /\ size(MemNext, UnionHeap) = size(Mem, 1) + size(Mem, 2)
           /\ IF Live(1) \cup Live(2) = {}
              THEN min(MemNext, UnionHeap) = None
              ELSE /\ min(MemNext, UnionHeap) \in Live(1) \cup Live(2)
                   /\ \A n \in Live(1) \cup Live(2) :
                        priority'[min(MemNext, UnionHeap)] <= priority[n]
           /\ \A h \in Heaps : size(MemNext, h) = 0 /\ min(MemNext, h) = None]_vars

-----------------------------------------------------------------------------
(* src/MinHeapTimed.py.  An Element is its creation number and carries its  *)
(* priority in priority[e]; the Elements have pairwise different objs, so   *)
(* _dict is keyed by the Element.  Positions count from 0, as in the code.  *)

\* The MinHeap's memory as one value.
HeapMem == [_heap |-> _heap, _dict |-> _dict, priority |-> priority,
            err |-> "none", ret |-> None]

\* self._heap[i]
At(m, i) == m._heap[i + 1]

(* Element.__lt__ *)
__lt__(m, a, b) == m.priority[a] < m.priority[b]

\* _swap that records the new position of the first Element only.
_swap_OneKey(m, i, j) ==
    LET d1 == [m._dict EXCEPT ![At(m, i)] = j]
    IN  [m EXCEPT !._dict = d1,
                  !._heap = [@ EXCEPT ![i + 1] = At(m, j), ![j + 1] = At(m, i)]]

(* MinHeap._swap *)
_swap(m, i, j) ==
    LET d1 == [m._dict EXCEPT ![At(m, i)] = j]
        d2 == [d1 EXCEPT ![At(m, j)] = i]
    IN  [m EXCEPT !._dict = d2,
                  !._heap = [@ EXCEPT ![i + 1] = At(m, j), ![j + 1] = At(m, i)]]

\* _bubble_down that looks at the left child only.
RECURSIVE _bubble_down_LeftOnly(_, _)
_bubble_down_LeftOnly(m, index) ==
    IF index < Len(m._heap)
    THEN LET left_child_index == index * 2 + 1
             min_index == IF left_child_index < Len(m._heap)
                             /\ __lt__(m, At(m, left_child_index), At(m, index))
                          THEN left_child_index ELSE index
         IN  IF min_index = index
             THEN m
             ELSE _bubble_down_LeftOnly(_swap(m, min_index, index), min_index)
    ELSE m

(* MinHeap._bubble_down *)
RECURSIVE _bubble_down(_, _)
_bubble_down(m, index) ==
    IF index < Len(m._heap)
    THEN LET left_child_index == index * 2 + 1
             right_child_index == left_child_index + 1
             min_left == IF left_child_index < Len(m._heap)
                            /\ __lt__(m, At(m, left_child_index), At(m, index))
                         THEN left_child_index ELSE index
             min_index == IF right_child_index < Len(m._heap)
                             /\ __lt__(m, At(m, right_child_index), At(m, min_left))
                          THEN right_child_index ELSE min_left
         IN  IF min_index = index
             THEN m
             ELSE _bubble_down(_swap(m, min_index, index), min_index)
    ELSE m

(* MinHeap._bubble_up *)
RECURSIVE _bubble_up(_, _)
_bubble_up(m, index) ==
    IF index > 0
    THEN LET parent_index == (index - 1) \div 2
         IN  IF __lt__(m, At(m, index), At(m, parent_index))
             THEN _bubble_up(_swap(m, index, parent_index), parent_index)
             ELSE m
    ELSE m

(* MinHeap.push *)
push(m, item) ==
    LET m1 == [m EXCEPT !._dict = [o \in DOMAIN m._dict \cup {item} |->
                                      IF o = item THEN Len(m._heap) ELSE m._dict[o]]]
        m2 == [m1 EXCEPT !._heap = Append(@, item)]
    IN  _bubble_up(m2, Len(m2._heap) - 1)

(* MinHeap.pop *)
pop(m) ==
    IF Len(m._heap) # 0
    THEN LET m1 == _swap(m, 0, Len(m._heap) - 1)
             min_item == m1._heap[Len(m1._heap)]
             m2 == [m1 EXCEPT !._heap = SubSeq(@, 1, Len(@) - 1)]
             m3 == IF min_item \in DOMAIN m2._dict
                   THEN [m2 EXCEPT !._dict = [o \in DOMAIN m2._dict \ {min_item} |->
                                                 m2._dict[o]]]
                   ELSE Raise(m2, "KeyError")
             m4 == IF Ok(m3) /\ Len(m3._heap) # 0 THEN _bubble_down(m3, 0) ELSE m3
         IN  IF Ok(m4) THEN [m4 EXCEPT !.ret = min_item] ELSE m4
    ELSE Raise(m, "IndexError")

\* Writes a MinHeap memory back to the variables.
HeapCommit(m) ==
    /\ _heap' = m._heap
    /\ _dict' = m._dict
    /\ priority' = m.priority
    /\ err' = m.err
    /\ ret' = m.ret
    /\ UNCHANGED <<left, right, parent, child, degree, mark, _min, _size, lost>>

\* heap.push(Element(i, p)): the new Element is the next unused one.
PushCall(p) ==
    /\ alloc < Cardinality(Nodes)
    /\ HeapCommit(push([HeapMem EXCEPT !.priority[alloc + 1] = p], alloc + 1))
    /\ call' = "push"
    /\ alloc' = alloc + 1
    /\ owner' = [owner EXCEPT ![alloc + 1] = MinHeap]

\* heap.pop()
PopCall ==
    /\ LET m == pop(HeapMem)
       IN  /\ HeapCommit(m)
           /\ owner' = IF Ok(m) THEN [owner EXCEPT ![m.ret] = None] ELSE owner
    /\ call' = "pop"
    /\ UNCHANGED alloc

\* A client pushes a new Element, up to maxn Elements in all.
Push(maxn, maxp) == \E p \in 1..maxp : alloc < maxn /\ PushCall(p)

Pop == PopCall

\* The binary MinHeap, filled by push and emptied by pop.
NextHeapSort ==
    \/ Push(HeapNodes, HeapPri)
    \/ Pop

SpecHeapSort == Init /\ [][NextHeapSort]_vars

\* test_sort's loop, while len(heap): item = heap.pop(), for at most fuel
\* rounds: the Elements popped, with the priority each had, and how it ended.
RECURSIVE PopAll(_, _)
PopAll(m, fuel) ==
    IF Len(m._heap) = 0 THEN [out |-> <<>>, end |-> "empty"]
    ELSE IF fuel = 0 THEN [out |-> <<>>, end |-> "more"]
    ELSE LET t == pop(m)
         IN  IF ~Ok(t) THEN [out |-> <<>>, end |-> "raised"]
             ELSE LET d == PopAll(t, fuel - 1)
                  IN  [out |-> <<[node |-> t.ret, priority |-> t.priority[t.ret]]>> \o d.out,
                       end |-> d.end]

\* C20: whatever Elements have been pushed, popping until the MinHeap is
\* empty returns exactly the Elements it holds, each once, in non-decreasing
\* priority order, in as many pops as it holds Elements.
C20_HeapSort ==
    LET d == PopAll(HeapMem, Cardinality(Live(MinHeap)))
    IN  /\ d.end = "empty"
        /\ Len(d.out) = Cardinality(Live(MinHeap))
        /\ {d.out[i].node : i \in 1..Len(d.out)} = Live(MinHeap)
        /\ \A i \in 1..(Len(d.out) - 1) : d.out[i].priority <= d.out[i + 1].priority

\* Five Elements of three different priorities have been pushed and none
\* popped; the root's right child is smaller than its left child, so the
\* first pop of the drain sifts down to the right.
C20_Witness ==
    /\ call = "push" /\ Len(_heap) = HeapNodes
    /\ Cardinality({priority[n] : n \in Live(MinHeap)}) = HeapPri
    /\ priority[_heap[3]] < priority[_heap[2]]
    /\ Len(PopAll(HeapMem, HeapNodes).out) = HeapNodes

-----------------------------------------------------------------------------
(* MinHeap.decrease_key and the position map (SpecHeapKey). *)

\* decrease_key that stores the new priority and leaves the Element where
\* it is.
MinHeap_decrease_key_NoSift(m, item, new_priority) ==
    IF new_priority > m.priority[item]
    THEN Raise(m, "ValueError")
    ELSE LET m1 == [m EXCEPT !.priority[item] = new_priority]
         IN  IF item \in DOMAIN m1._dict THEN m1 ELSE Raise(m1, "KeyError")

(* MinHeap.decrease_key *)
MinHeap_decrease_key(m, item, new_priority) ==
    IF new_priority > m.priority[item]
    THEN Raise(m, "ValueError")
    ELSE LET m1 == [m EXCEPT !.priority[item] = new_priority]
         IN  IF item \in DOMAIN m1._dict
             THEN _bubble_up(m1, m1._dict[item])
             ELSE Raise(m1, "KeyError")

(* MinHeap.__getitem__: heap[obj] *)
__getitem__(m, item) ==
    IF item \in DOMAIN m._dict
    THEN [m EXCEPT !.ret = At(m, m._dict[item])]
    ELSE Raise(m, "KeyError")

\* heap.decrease_key(item, p)
HeapDecreaseKeyCall(item, p) ==
    /\ HeapCommit(MinHeap_decrease_key(HeapMem, item, p))
    /\ call' = "heap_decrease_key"
    /\ UNCHANGED <<alloc, owner>>

\* A client calls decrease_key on an Element it has constructed, in the heap
\* or already popped, with any priority.
HeapDecreaseKey(maxp) ==
    \E item \in 1..alloc, p \in 1..maxp : HeapDecreaseKeyCall(item, p)

\* The binary MinHeap under push, pop and decrease_key.
NextHeapKey ==
    \/ Push(HeapNodes, HeapPri)
    \/ Pop
    \/ HeapDecreaseKey(HeapPri)

SpecHeapKey == Init /\ [][NextHeapKey]_vars

\* C21: decrease_key on an Element of the heap with a lower priority returns
\* and stores that priority, and from every state reached by push,
\* decrease_key and pop, popping until empty returns every Element the heap
\* holds exactly once, each with its updated priority, in non-decreasing
\* order of these priorities.
C21_DecreaseKeyThenSort ==
    /\ [][\A item \in Live(MinHeap), p \in 1..HeapPri :
            (HeapDecreaseKeyCall(item, p) /\ p < priority[item])
            => err' = "none" /\ priority' = [priority EXCEPT ![item] = p]]_vars
    /\ [](LET d == PopAll(HeapMem, Cardinality(Live(MinHeap)))
          IN  /\ d.end = "empty"
              /\ Len(d.out) = Cardinality(Live(MinHeap))
              /\ {d.out[i].node : i \in 1..Len(d.out)} = Live(MinHeap)
              /\ \A i \in 1..Len(d.out) : d.out[i].priority = priority[d.out[i].node]
              /\ \A i \in 1..(Len(d.out) - 1) :
                    priority[d.out[i].node] <= priority[d.out[i + 1].node])

\* A decrease_key has just returned on a heap of five Elements and has made
\* the Element pushed last, which sat at the bottom, the only one of least
\* priority: it was sifted up to the root.
C21_Witness ==
    /\ call = "heap_decrease_key" /\ err = "none"
    /\ Len(_heap) = HeapNodes /\ _heap[1] = HeapNodes
    /\ \A n \in Live(MinHeap) \ {HeapNodes} : priority[HeapNodes] < priority[n]
    /\ \E n \in Live(MinHeap) : priority[n] = HeapPri

\* C29: after any sequence of push, pop and decrease_key, _dict has exactly
\* one key per Element in _heap, heap[obj] is the Element with that obj for
\* every Element in the heap, the Elements in _heap are the ones pushed and
\* not popped, and heap[obj] of a popped Element raises KeyError.
C29_PositionMap ==
    /\ DOMAIN _dict = {_heap[i] : i \in 1..Len(_heap)}
    /\ Cardinality(DOMAIN _dict) = Len(_heap)
    /\ DOMAIN _dict = Live(MinHeap)
    /\ \A e \in Live(MinHeap) :
        /\ _dict[e] \in 0..(Len(_heap) - 1)
        /\ __getitem__(HeapMem, e).err = "none"
        /\ __getitem__(HeapMem, e).ret = e
    /\ \A e \in (1..alloc) \ Live(MinHeap) : __getitem__(HeapMem, e).err = "KeyError"

\* A pop has just returned from a heap of five Elements of three different
\* priorities: it swapped the root with the last Element and sifted down.
C29_Witness ==
    /\ call = "pop" /\ err = "none" /\ ret # None
    /\ alloc = HeapNodes /\ Len(_heap) = HeapNodes - 1
    /\ Cardinality({priority[n] : n \in Live(MinHeap)}) = HeapPri
    /\ _dict[_heap[Len(_heap)]] = Len(_heap) - 1
    /\ ret \notin DOMAIN _dict

-----------------------------------------------------------------------------
(* Marks and cascading cuts (SpecCascade). *)

\* A client fills the heap first: no insert once another call was made.
Filling == call \in {"init", "insert"}

\* The Elements whose priority a decrease_key has lowered to -inf.
Lowered == {n \in 1..alloc : priority[n] = NegInf}

\* One heap, filled in a batch and then worked on with extract_min and
\* decrease_key, as prims_fib of Graph.py uses it.
NextCascade ==
    \/ (Filling /\ Insert(1, CascadeNodes, CascadePri))
    \/ ExtractMin(1)
    \/ (Cardinality(Lowered) < CascadeCuts /\ DecreaseKey(1, CascadePri))

SpecCascade == Init /\ [][NextCascade]_vars

\* The marked children a cascading cut that starts at y cuts: y and its
\* ancestors, up to the first one that is unmarked or at root level.
RECURSIVE CutRun(_, _)
CutRun(s, y) ==
    IF s.parent[y] = None \/ ~s.mark[y] THEN {} ELSE {y} \cup CutRun(s, s.parent[y])

\* The Element at which a cascading cut that starts at y stops.
RECURSIVE CutStop(_, _)
CutStop(s, y) ==
    IF s.parent[y] = None \/ ~s.mark[y] THEN y ELSE CutStop(s, s.parent[y])

\* C22: a child is marked exactly if a cut took a child from it since
\* _heap_link made it a child; and a decrease_key that cuts x from its parent y
\* cuts with it the marked children from y upwards, marks the first unmarked
\* child it meets and stops there, marks no Element at root level, changes no
\* other parent or mark, and takes from no Element that stays a child more
\* than one child, none if it had lost one before.
C22_MarkIsOneLostChild ==
    /\ [](\A y \in Live(1) : parent[y] # None => (mark[y] <=> lost[y]))
    /\ [][\A x \in Live(1), p \in PrioritiesTo(CascadePri) :
            (/\ DecreaseKeyCall(1, x, p) /\ err' = "none"
             /\ parent[x] # None /\ p < priority[parent[x]])
            => LET y == parent[x]
                   run == CutRun(Mem, y)
                   stop == CutStop(Mem, y)
               IN  /\ \A n \in {x} \cup run : parent'[n] = None /\ ~mark'[n]
                   /\ parent'[stop] = parent[stop]
                   /\ mark'[stop] = (mark[stop] \/ parent[stop] # None)
                   /\ \A n \in Nodes \ ({x, stop} \cup run) :
                          parent'[n] = parent[n] /\ mark'[n] = mark[n]
                   /\ \A n \in Nodes :
                          parent'[n] # None
                          => Cardinality({c \in Nodes : parent[c] = n /\ parent'[c] # n})
                                <= (IF lost[n] THEN 0 ELSE 1)]_vars

\* A cascading cut has happened: the heap of eight Elements that one
\* extract_min built as a single tree has, after a decrease_key, a second
\* root of finite priority, which only a cascading cut puts there.
C22_Witness ==
    /\ call = "decrease_key" /\ err = "none"
    /\ alloc = CascadeNodes /\ _size[1] = CascadeNodes - 1
    /\ \E r, y \in Live(1) :
          /\ r # y /\ parent[r] = None /\ parent[y] = None
          /\ priority[r] = CascadePri /\ priority[y] = CascadePri
          /\ degree[r] = 2 /\ degree[y] = 0 /\ ~mark[r] /\ ~mark[y]

-----------------------------------------------------------------------------
(* The slot table of _consolidate (SpecDeep). *)

\* The memory in which the _consolidate of a call that leads from the state to
\* memory s has used only slots of its table: it has not raised IndexError, and
\* every root it leaves, whose degree is the last slot its carry loop read
\* and wrote for that tree, has a degree below the table length for the size
\* counter before the call.
InRange(s) ==
    /\ s.err # "IndexError"
    /\ \A r \in RootRing(s, 1) : s.degree[r] < ArrayLen(_size[1])

\* C23: no call has raised IndexError, and the _consolidate of an extract_min
\* or of a delete of any Element of the heap, made in any state reached by
\* insert, extract_min, decrease_key and delete, reads and writes only slots
\* below the table length taken from the size counter of that moment.
C23_SlotsInRange ==
    /\ err # "IndexError"
    /\ _size[1] >= 2 => InRange(extract_min(Mem, 1))
    /\ \A x \in Live(1) : _size[1] >= 2 => InRange(delete(Mem, 1, x))

\* An extract_min or a delete has returned and its _consolidate has carried a
\* tree up to slot 2.
C23_Witness ==
    /\ call \in {"extract_min", "delete"} /\ err = "none"
    /\ \E r \in RootRing(Mem, 1) : degree[r] = 2

-----------------------------------------------------------------------------
(* Subtree sizes (SpecGraft). *)

\* The Elements of S with their descendants: what the child rings hold and
\* what names an Element of the set as its parent.
RECURSIVE SubtreeFrom(_, _)
SubtreeFrom(s, S) ==
    LET T == S \cup {c \in Nodes : s.parent[c] \in S}
               \cup UNION {ChildRing(s, p) : p \in S}
    IN  IF T = S THEN S ELSE SubtreeFrom(s, T)

\* The subtree of which n is the root.
Subtree(s, n) == SubtreeFrom(s, {n})

\* Two heaps filled in a batch, heap 1 with one Element; then extract_min and
\* decrease_key on both, and heap 1 absorbs heap 2.
NextGraft ==
    \/ (Filling /\ _size[1] = 0 /\ Insert(1, GraftNodes, DeepPri))
    \/ (Filling /\ Insert(2, GraftNodes, DeepPri))
    \/ ExtractMin(1)
    \/ ExtractMin(2)
    \/ (Cardinality(Lowered) < GraftCuts /\ DecreaseKey(1, DeepPri))
    \/ (Cardinality(Lowered) < GraftCuts /\ DecreaseKey(2, DeepPri))
    \/ Merge

SpecGraft == Init /\ [][NextGraft]_vars

\* C24: every Element of degree k in a heap is the root of a subtree of at
\* least F(k+2) Elements.
C24_FibonacciSubtrees ==
    \A n \in Present : Cardinality(Subtree(Mem, n)) >= Fib(degree[n] + 2)

-----------------------------------------------------------------------------
(* What decrease_key, insert and merge leave alone (Spec, SpecMerge). *)

\* C25: a decrease_key(x, p) that returns cuts x exactly if x has a parent and
\* p is below the parent's priority: then x is a root afterwards and its
\* former parent has one child less; otherwise the call changes the priority
\* of x and nothing else but, possibly, min to x: no parent, child, left,
\* right, degree or mark, and not the size.
C25_DecreaseKeyCutsOnlyBelowParent ==
    [][\A x \in Live(1), p \in PrioritiesTo(MaxPri) :
        (DecreaseKeyCall(1, x, p) /\ err' = "none")
        => IF parent[x] # None /\ p < priority[parent[x]]
           THEN /\ parent'[x] = None
                /\ x \in RootRing(MemNext, 1)
                /\ x \notin ChildRing(MemNext, parent[x])
                /\ degree'[parent[x]] = degree[parent[x]] - 1
           ELSE /\ priority' = [priority EXCEPT ![x] = p]
                /\ UNCHANGED <<left, right, parent, child, degree, mark, _size>>
                /\ _min'[1] \in {_min[1], x}]_vars

\* A decrease_key has returned on a heap of two Elements that are still parent
\* and child, both now with priority 2: it has lowered the child's priority
\* to its parent's, and made no cut.
C25_Witness ==
    /\ call = "decrease_key" /\ err = "none" /\ _size[1] = 2
    /\ \E x \in Live(1) :
          /\ parent[x] # None /\ parent[x] \in Live(1)
          /\ priority[x] = 2 /\ priority[parent[x]] = 2

\* C26: the priority of an Element that is in a heap changes only in a step
\* that is a decrease_key that returns or a delete, called with that Element
\* on the heap that holds it.
C26_PriorityChangesByOwnHandle ==
    [][\A n \in Present :
        priority'[n] # priority[n]
        => \/ \E p \in PrioritiesTo(MergePri) :
                 DecreaseKeyCall(owner[n], n, p) /\ err' = "none"
           \/ DeleteCall(owner[n], n)]_vars

\* What C27 asks of a step that is an insert or a merge: every Element
\* constructed before keeps its parent, child, degree, mark and priority, and
\* keeps its left and right as well unless it is at root level.
NoRestructuring ==
    \A n \in 1..alloc :
        /\ parent'[n] = parent[n] /\ child'[n] = child[n]
        /\ degree'[n] = degree[n] /\ mark'[n] = mark[n]
        /\ priority'[n] = priority[n]
        /\ (left'[n] # left[n] \/ right'[n] # right[n]) => parent[n] = None

\* C27: insert and merge do no restructuring; the Element an insert adds is
\* an unmarked root of degree 0 without children, the size grows by one, and
\* min becomes the new Element exactly if the heap was empty or the new
\* priority is below the minimum's; the other heap is left alone.
C27_InsertAndMergeOnlySplice ==
    [][/\ \A h \in Heaps, p \in 1..MaxPri :
            InsertCall(h, p)
            => /\ NoRestructuring
               /\ parent'[alloc'] = None /\ child'[alloc'] = None
               /\ degree'[alloc'] = 0 /\ ~mark'[alloc'] /\ priority'[alloc'] = p
               /\ _size' = [_size EXCEPT ![h] = @ + 1]
               /\ _min' = [_min EXCEPT ![h] =
                              IF @ = None \/ p < priority[@] THEN alloc' ELSE @]
       /\ MergeCall(1, 2) => NoRestructuring]_vars

-----------------------------------------------------------------------------
(* How often the loops run (SpecCascade). *)

\* A promotion loop whose exit test compares the next child with z itself.
RECURSIVE Promoted_MissesStart(_, _, _, _, _)
Promoted_MissesStart(s, h, z, x, out) ==
    LET next_child == s.right[x]
        s1 == [s EXCEPT !.parent[x] = None]
        s2 == _insert_to_root_list(s1, h, x)
    IN  IF next_child = z \/ Len(out) >= Cardinality(Nodes)
        THEN Append(out, x)
        ELSE Promoted_MissesStart(s2, h, z, next_child, Append(out, x))

\* extract_min, the promotion loop, at child x of z: the children it visits,
\* one for each time round the loop, in order.  A loop that has not met its
\* exit test after more rounds than there are Elements is followed no further.
RECURSIVE Promoted(_, _, _, _, _)
Promoted(s, h, z, x, out) ==
    LET next_child == s.right[x]
        s1 == [s EXCEPT !.parent[x] = None]
        s2 == _insert_to_root_list(s1, h, x)
    IN  IF next_child = s2.child[z] \/ Len(out) >= Cardinality(Nodes)
        THEN Append(out, x)
        ELSE Promoted(s2, h, z, next_child, Append(out, x))

\* extract_min on a heap with more than one root, up to its call of
\* _consolidate: the children promoted, _min moved on, z unlinked.
AtConsolidate(s, h) ==
    LET z  == s._min[h]
        s1 == IF s.child[z] # None THEN Promote(s, h, z, s.child[z]) ELSE s
    IN  _remove_from_root_list([s1 EXCEPT !._min[h] = s1.right[z]], h, z)

\* The ancestors of x: its parent, the parent's parent, and so on.
RECURSIVE Ancestors(_, _)
Ancestors(s, x) ==
    IF s.parent[x] = None THEN {} ELSE {s.parent[x]} \cup Ancestors(s, s.parent[x])

\* A sequence without repetition.
Once(q) == \A i, j \in 1..Len(q) : q[i] = q[j] => i = j

Range(q) == {q[i] : i \in 1..Len(q)}

====
